---- MODULE Spec2Model ----
(***************************************************************************)
(* A model of the ranked-ladder harvester: load_players and load_matches   *)
(* (with load_matches_from_player) of src/src/crawl.py, and the two table  *)
(* builders of src/src/process_lol_data.py.  One run of the model is one   *)
(* call of one of these functions; the remote API, the clock and the file  *)
(* system answer nondeterministically.                                     *)
(***************************************************************************)
EXTENDS Integers, Sequences, FiniteSets, TLC

\* ------------------------------------------------------------------ bounds
\* Largest number of seed players of a crawl run.
MaxPlayers == 2
\* Longest candidate list the remote service returns for one player.
MaxListLen == 2
\* Most entries of the three ladder tiers together.
MaxLadder == 3
\* Largest player_count argument of load_players.
MaxCount == 3
\* Participant slots of a match row (p1..p10 in the program).
NumSlots == 2
\* Most rows of a raw match table.
MaxRows == 2

\* ------------------------------------------------------------- input sets
MatchIds == {"M1", "M2"}
Regions == {"na1", "euw1", "eun1", "kr", "eun1kr", "br1"}
LeaguePoints == {50, 100, 200}
\* An optional argument is <<>> (None) or <<v>>.
TimeLimits == {<<>>, <<0>>, <<1>>}
Sources == {"players", "load_path", "load_path_missing", "none"}
ProbeResults == {"ok", "401", "error"}
Operations == {"load_players", "load_matches", "process_player_data_from_matches",
               "process_match_data"}
\* Who can sit in a slot of a raw match row: name, identity, champion, result.
Identities ==
    { [name |-> "<U>", puuid |-> "0", summonerId |-> "0", champId |-> 3, win |-> FALSE],
      [name |-> "Ann", puuid |-> "p1", summonerId |-> "s1", champId |-> 1, win |-> TRUE],
      [name |-> "Ann", puuid |-> "p2", summonerId |-> "s2", champId |-> 2, win |-> FALSE] }
\* The noise_rate argument in halves: -0.5, 0, 0.5, 1, 1.5.
NoiseRates == {-1, 0, 1, 2, 3}
FileKinds == {"missing", "bad_columns", "ok"}
ApiKinds == {"status", "league", "summoner", "matchlist", "match", "data_dragon"}

\* Sequences over S of length at most len.
RECURSIVE SeqsUpTo(_, _)
SeqsUpTo(S, len) ==
    IF len = 0 THEN {<<>>}
    ELSE LET shorter == SeqsUpTo(S, len - 1)
         IN shorter \cup {Append(s, x) : s \in {t \in shorter : Len(t) = len - 1}, x \in S}

Range(s) == {s[x] : x \in DOMAIN s}

Min(a, b) == IF a < b THEN a ELSE b

VARIABLES
    op,                 \* the function that was called
    pc,                 \* the position inside it
    outcome,            \* "running", "returned" or the exception raised
    reg,                \* the reg argument
    api,                \* remote calls issued so far, per kind
    probe,              \* what the credential probe answered ("none" before it)
    saved,              \* "none", "not_requested", "written" or "failed"
    ret,                \* the table handed back to the caller
    \* load_matches / load_matches_from_player
    time_limit,         \* the time_limit argument: <<>> (None) or <<hours>>
    date,               \* the date argument against time.time(): "past" or "not_past"
    no_source,          \* (players is None) and (load_path is None)
    n,                  \* player_puuids.size
    i,                  \* players processed
    searched_matches,
    match_data,
    prev,
    match_list,
    k,                  \* position of the for loop in match_list
    player_match_data,
    stopped_at,         \* i at the budget check that broke the loop, 0 if none
    lists,              \* history: the candidate list returned for each player
    fetchLog,           \* history: every match-detail call
    listFailures,       \* history: match-list calls that failed
    \* load_players
    player_count,
    ladder,             \* chal + gm + m entries, as fetched so far
    tiers,              \* ladder tiers fetched
    attempted,          \* i of load_players: ladder entries attempted
    j,                  \* the failure counter of load_players
    in_order_players,
    summoner_info,      \* "unbound" or the shape of the last profile answer
    profileFailures,    \* history: profile lookups that failed
    \* process_player_data_from_matches / process_match_data
    match_rows,         \* the raw match table read from load_path
    player_data,        \* the player directory read from player_load_path
    table,              \* match_data while process_match_data reshapes it
    slot,               \* slots reshaped so far
    noise_rate,         \* the noise_rate argument, in halves
    champ_dict

argVars == <<time_limit, date, no_source>>
crawlVars == <<n, i, searched_matches, match_data, prev, match_list, k,
               player_match_data, stopped_at, lists, fetchLog, listFailures>>
ladderVars == <<player_count, ladder, tiers, attempted, j, in_order_players, summoner_info,
                profileFailures>>
tableVars == <<match_rows, player_data, table, slot, noise_rate, champ_dict>>
vars == <<op, pc, outcome, reg, api, probe, saved, ret, argVars, crawlVars, ladderVars,
          tableVars>>

Inc(calls, kind) == [calls EXCEPT ![kind] = @ + 1]

\* ------------------------------------------------------------ dictionaries
\* A Python dict, in insertion order: a sequence of [key, val] entries.
DictKeys(d) == {d[x].key : x \in DOMAIN d}

\* An assignment d[key] = val that is lost.
DictSetLost(d, key, val) == d

\* d[key] = val
DictSet(d, key, val) ==
    IF key \in DictKeys(d)
    THEN [x \in DOMAIN d |-> IF d[x].key = key THEN [key |-> key, val |-> val] ELSE d[x]]
    ELSE Append(d, [key |-> key, val |-> val])

\* A merge that loses the right-hand mapping.
DictUnionLeftOnly(a, b) == a

\* a | b
RECURSIVE DictUnion(_, _)
DictUnion(a, b) ==
    IF b = <<>> THEN a
    ELSE DictUnion(DictSet(a, Head(b).key, Head(b).val), Tail(b))

\* How often key occurs among the entries of d.
KeyCount(d, key) == Cardinality({x \in DOMAIN d : d[x].key = key})

\* ------------------------------------------------------------- validation
\* The region list of both loaders: 'eun1' 'kr' is one string literal.
ValidRegions == {"na1", "euw1", "eun1kr"}

ValidateLoadPlayers(r, count) ==
    IF r \notin ValidRegions THEN "AssertionError: Invalid region"
    ELSE IF ~(count > 0) THEN "AssertionError: Invalid player count"
    ELSE "ok"

\* A load_matches that goes to the remote service without checking its arguments.
ValidateLoadMatchesSkipped(r, tl, past, src, cols) == "ok"

\* The asserts of load_matches and the loading of player_puuids, in source order.
ValidateLoadMatches(r, tl, past, src, cols) ==
    IF r \notin ValidRegions THEN "AssertionError: Invalid region"
    ELSE IF tl = <<>> THEN "TypeError: None > 0"
    ELSE IF ~(tl[1] > 0) THEN "AssertionError: Invalid time limit"
    ELSE IF ~past THEN "AssertionError: Invalid date"
    ELSE IF src = "none" THEN "ValueError: Specify at least one of players or load_data"
    ELSE IF src = "load_path_missing" THEN "FileNotFoundError"
    ELSE IF ~cols THEN "KeyError: puuid"
    ELSE "ok"

\* A probe whose ApiError is swallowed instead.
ProbeOutcomeSwallowed(res) == "running"

\* The credential probe: every ApiError is re-raised.
ProbeOutcome(res) ==
    IF res = "ok" THEN "running"
    ELSE IF res = "401" THEN "ApiError: 401"
    ELSE "ApiError"

\* ------------------------------------------------------------------- Init
Init ==
    /\ op \in Operations
    /\ pc = "start"
    /\ outcome = "running"
    /\ reg = "none"
    /\ api = [kind \in ApiKinds |-> 0]
    /\ probe = "none"
    /\ saved = "none"
    /\ ret = <<>>
    /\ time_limit = <<>>
    /\ date = "none"
    /\ no_source = FALSE
    /\ n = 0
    /\ i = 0
    /\ searched_matches = <<>>
    /\ match_data = <<>>
    /\ prev = 0
    /\ match_list = <<>>
    /\ k = 0
    /\ player_match_data = <<>>
    /\ stopped_at = 0
    /\ lists = <<>>
    /\ fetchLog = <<>>
    /\ listFailures = 0
    /\ player_count = 0
    /\ ladder = <<>>
    /\ tiers = 0
    /\ attempted = 0
    /\ j = 0
    /\ in_order_players = <<>>
    /\ summoner_info = "unbound"
    /\ profileFailures = 0
    /\ match_rows = <<>>
    /\ player_data = [has_key |-> FALSE, rows |-> <<>>]
    /\ table = <<>>
    /\ slot = 0
    /\ noise_rate = 0
    /\ champ_dict = <<>>

\* An exception leaves the function.
Raise(e) == pc' = "done" /\ outcome' = e

\* The save step of the loaders prints a failed write and returns the table.
LP_SaveOutcome(s) == "returned"

\* A save step that lets the write error out.
LM_SaveOutcomeRaises(s) == IF s = "failed" THEN "OSError" ELSE "returned"

LM_SaveOutcome(s) == "returned"

\* The save step of the table builders prints a failed write and re-raises it.
PP_SaveOutcome(s) == IF s = "failed" THEN "OSError" ELSE "returned"

PM_SaveOutcome(s) == IF s = "failed" THEN "OSError" ELSE "returned"

\* ------------------------------------------------- load_matches (crawl.py)
\* What the remote service holds for a match: immutable, so a function of its id.
RemoteMatch(id) ==
    [info |-> [participants |->
        << [summonerName |-> "Ann", puuid |-> "pu-ann", summonerId |-> "s-ann",
            championId |-> 1, win |-> (id = "M1")],
           [summonerName |-> "Bob", puuid |-> "pu-bob", summonerId |-> "s-bob",
            championId |-> 2, win |-> (id # "M1")] >>]]

\* The flat record of one match: column p{x}_{field} is the pair <<x, field>>.
Serialise(match_info) ==
    LET parts == match_info.info.participants
        value(x, field) ==
            CASE field = "name" -> parts[x].summonerName
              [] field = "puuid" -> parts[x].puuid
              [] field = "summonerId" -> parts[x].summonerId
              [] field = "champId" -> parts[x].championId
              [] field = "win" -> parts[x].win
    IN [col \in (DOMAIN parts) \X {"name", "puuid", "summonerId", "champId", "win"}
            |-> value(col[1], col[2])]

\* A sub-crawl without the membership test: every candidate is fetched.
NotSearchedAlways(id, searched) == TRUE

\* A membership test that also counts the ids whose fetch failed.
NotSearchedNorFailed(id, searched) ==
    id \notin Range(searched) /\ \A x \in DOMAIN fetchLog : fetchLog[x].id # id

\* match_id not in searched_matches
NotSearched(id, searched) == id \notin Range(searched)

\* A sub-crawl that forgets to record the fetched id.
MarkSearchedForgotten(searched, id) == searched

\* searched_matches.append(match_id)
MarkSearched(searched, id) == Append(searched, id)

\* A candidate loop that goes on to the next candidate after a failure.
AfterFailedFetchContinue(pos) == [pc |-> "cand", k |-> pos + 1]

\* A failed match-detail call breaks out of the candidate loop.
AfterFailedFetch(pos) == [pc |-> "aborted", k |-> pos]

\* A player loop that never breaks.
AfterBudgetCheckIgnored(exceeded) == "loop"

\* The budget check after a player: break, or on to the next player.
AfterBudgetCheck(exceeded) == IF exceeded THEN "build" ELSE "loop"

\* The progress report of load_matches: more than ProgressStep new matches.
ProgressStep == 100
Progress(count, last) == IF count - last > ProgressStep THEN count ELSE last

\* pd.DataFrame.from_dict(match_data, orient = 'index') with the match_id column.
FromDict(d) == [x \in DOMAIN d |-> [match_id |-> d[x].key, cols |-> d[x].val]]

LM_Validate ==
    /\ op = "load_matches" /\ pc = "start"
    /\ \E r \in Regions, tl \in TimeLimits, past \in BOOLEAN, src \in Sources,
          cols \in BOOLEAN, size \in 0..MaxPlayers :
         LET err == ValidateLoadMatches(r, tl, past, src, cols)
         IN /\ reg' = r
            /\ time_limit' = tl
            /\ date' = IF past THEN "past" ELSE "not_past"
            /\ no_source' = (src = "none")
            /\ IF err = "ok"
               THEN pc' = "probe" /\ n' = size /\ UNCHANGED outcome
               ELSE Raise(err) /\ UNCHANGED n
    /\ UNCHANGED <<op, api, probe, saved, ret, i, searched_matches, match_data, prev,
                   match_list, k, player_match_data, stopped_at, lists, fetchLog,
                   listFailures, ladderVars, tableVars>>

LM_Probe ==
    /\ op = "load_matches" /\ pc = "probe"
    /\ \E res \in ProbeResults :
         /\ probe' = res
         /\ api' = Inc(api, "status")
         /\ IF ProbeOutcome(res) = "running"
            THEN pc' = "loop" /\ UNCHANGED outcome
            ELSE Raise(ProbeOutcome(res))
    /\ searched_matches' = <<>> /\ match_data' = <<>> /\ prev' = 0 /\ i' = 0
    /\ UNCHANGED <<op, argVars, reg, saved, ret, n, match_list, k, player_match_data,
                   stopped_at, lists, fetchLog, listFailures, ladderVars, tableVars>>

\* The match-list call of the next player fails: load_matches_from_player
\* returns None, and unpacking it in load_matches raises TypeError.
LMP_ListFails ==
    /\ op = "load_matches" /\ pc = "loop" /\ i < n
    /\ api' = Inc(api, "matchlist")
    /\ listFailures' = listFailures + 1
    /\ Raise("TypeError: cannot unpack None")
    /\ UNCHANGED <<op, argVars, reg, probe, saved, ret, n, i, searched_matches, match_data,
                   prev, match_list, k, player_match_data, stopped_at, lists,
                   fetchLog, ladderVars, tableVars>>

LMP_ListOk ==
    /\ op = "load_matches" /\ pc = "loop" /\ i < n
    /\ api' = Inc(api, "matchlist")
    /\ \E l \in SeqsUpTo(MatchIds, MaxListLen) :
         /\ match_list' = l
         /\ lists' = Append(lists, l)
    /\ player_match_data' = <<>>
    /\ k' = 1
    /\ pc' = "cand"
    /\ UNCHANGED <<op, argVars, outcome, reg, probe, saved, ret, n, i, searched_matches,
                   match_data, prev, stopped_at, fetchLog, listFailures, ladderVars, tableVars>>

LMP_SkipSearched ==
    /\ op = "load_matches" /\ pc = "cand" /\ k <= Len(match_list)
    /\ ~NotSearched(match_list[k], searched_matches)
    /\ k' = k + 1
    /\ UNCHANGED <<op, argVars, pc, outcome, reg, api, probe, saved, ret, n, i,
                   searched_matches, match_data, prev, match_list, player_match_data,
                   stopped_at, lists, fetchLog, listFailures, ladderVars, tableVars>>

LMP_FetchOk ==
    /\ op = "load_matches" /\ pc = "cand" /\ k <= Len(match_list)
    /\ NotSearched(match_list[k], searched_matches)
    /\ api' = Inc(api, "match")
    /\ fetchLog' = Append(fetchLog, [player |-> i + 1, pos |-> k,
                                     id |-> match_list[k], ok |-> TRUE])
    /\ player_match_data' = DictSet(player_match_data, match_list[k],
                                    Serialise(RemoteMatch(match_list[k])))
    /\ searched_matches' = MarkSearched(searched_matches, match_list[k])
    /\ k' = k + 1
    /\ UNCHANGED <<op, argVars, pc, outcome, reg, probe, saved, ret, n, i, match_data, prev,
                   match_list, stopped_at, lists, listFailures, ladderVars, tableVars>>

LMP_FetchFails ==
    /\ op = "load_matches" /\ pc = "cand" /\ k <= Len(match_list)
    /\ NotSearched(match_list[k], searched_matches)
    /\ api' = Inc(api, "match")
    /\ fetchLog' = Append(fetchLog, [player |-> i + 1, pos |-> k,
                                     id |-> match_list[k], ok |-> FALSE])
    /\ pc' = AfterFailedFetch(k).pc
    /\ k' = AfterFailedFetch(k).k
    /\ UNCHANGED <<op, argVars, outcome, reg, probe, saved, ret, n, i, searched_matches,
                   match_data, prev, match_list, player_match_data, stopped_at,
                   lists, listFailures, ladderVars, tableVars>>

\* The sub-crawl returns; load_matches merges, reports, counts and checks the budget.
LM_Merge ==
    /\ op = "load_matches"
    /\ \/ pc = "aborted"
       \/ pc = "cand" /\ k > Len(match_list)
    /\ match_data' = DictUnion(match_data, player_match_data)
    /\ prev' = Progress(Len(searched_matches), prev)
    /\ i' = i + 1
    /\ \E exceeded \in BOOLEAN :
         /\ pc' = AfterBudgetCheck(exceeded)
         /\ stopped_at' = IF exceeded THEN i + 1 ELSE stopped_at
    /\ UNCHANGED <<op, argVars, outcome, reg, api, probe, saved, ret, n, searched_matches,
                   match_list, k, player_match_data, lists, fetchLog, listFailures,
                   ladderVars, tableVars>>

\* The loop is over: the table is built and saved. A failed write is printed;
\* the table is returned either way.
LM_Save ==
    /\ op = "load_matches"
    /\ \/ pc = "build"
       \/ pc = "loop" /\ i >= n
    /\ ret' = FromDict(match_data)
    /\ \E s \in {"not_requested", "written", "failed"} :
         /\ saved' = s
         /\ outcome' = LM_SaveOutcome(s)
    /\ pc' = "done"
    /\ UNCHANGED <<op, argVars, reg, api, probe, crawlVars, ladderVars, tableVars>>

\* -------------------------------------------------- load_players (crawl.py)
\* The three ladder calls, in the order their entries are concatenated.
Tiers == <<"challenger", "grandmaster", "master">>

\* The entries of one tier answer, in the order the service lists them; before
\* them the ladder holds `above` entries, and a summonerId is the ladder rank.
TierEntries(above, lps) ==
    [x \in DOMAIN lps |-> [summonerId |-> above + x, leaguePoints |-> lps[x]]]

\* zip(entries, range(1, player_count + 1)): the number of loop rounds.
Rounds(entries, count) == Min(Len(entries), count)

\* The row appended for an entry whose profile lookup succeeded.
PlayerRow(summoner) ==
    [puuid |-> <<"puuid", summoner.summonerId>>,
     summonerId |-> summoner.summonerId,
     leaguePoints |-> summoner.leaguePoints]

\* The except branch prints summoner_info['summonerName'] before anything else.
ProfileFailure(info) ==
    IF info = "unbound" THEN "UnboundLocalError: summoner_info"
    ELSE IF info = "no_summonerName" THEN "KeyError: summonerName"
    ELSE "running"

\* The order of an ascending sort.
PrecedesAscending(a, b) == a.leaguePoints <= b.leaguePoints

\* key = kv[4], reverse = True / sort_values('leaguePoints', ascending = False)
Precedes(a, b) == a.leaguePoints >= b.leaguePoints

\* x put into the sorted sequence s behind its equals (both sorts are stable here).
RECURSIVE Insert(_, _)
Insert(s, x) ==
    IF s = <<>> THEN <<x>>
    ELSE IF Precedes(Head(s), x) THEN <<Head(s)>> \o Insert(Tail(s), x)
    ELSE <<x>> \o s

RECURSIVE Sorted(_)
Sorted(s) ==
    IF s = <<>> THEN <<>>
    ELSE Insert(Sorted(SubSeq(s, 1, Len(s) - 1)), s[Len(s)])

SortValues(df) == Sorted(df)

LP_Validate ==
    /\ op = "load_players" /\ pc = "start"
    /\ \E r \in Regions, count \in 0..MaxCount :
         LET err == ValidateLoadPlayers(r, count)
         IN /\ reg' = r
            /\ player_count' = count
            /\ IF err = "ok"
               THEN pc' = "probe" /\ UNCHANGED outcome
               ELSE Raise(err)
    /\ UNCHANGED <<op, argVars, api, probe, saved, ret, crawlVars, ladder, tiers, attempted, j,
                   in_order_players, summoner_info, profileFailures, tableVars>>

LP_Probe ==
    /\ op = "load_players" /\ pc = "probe"
    /\ \E res \in ProbeResults :
         /\ probe' = res
         /\ api' = Inc(api, "status")
         /\ IF ProbeOutcome(res) = "running"
            THEN pc' = "ladder" /\ UNCHANGED outcome
            ELSE Raise(ProbeOutcome(res))
    /\ UNCHANGED <<op, argVars, reg, saved, ret, crawlVars, ladderVars, tableVars>>

\* A ladder call is not guarded: its ApiError leaves load_players.
LP_TierFails ==
    /\ op = "load_players" /\ pc = "ladder"
    /\ api' = Inc(api, "league")
    /\ Raise("ApiError")
    /\ UNCHANGED <<op, argVars, reg, probe, saved, ret, crawlVars, ladderVars, tableVars>>

LP_TierOk ==
    /\ op = "load_players" /\ pc = "ladder"
    /\ api' = Inc(api, "league")
    /\ \E lps \in SeqsUpTo(LeaguePoints, MaxLadder - Len(ladder)) :
         ladder' = ladder \o TierEntries(Len(ladder), lps)
    /\ tiers' = tiers + 1
    /\ pc' = IF tiers + 1 = Len(Tiers) THEN "profiles" ELSE "ladder"
    /\ attempted' = 0 /\ j' = 0 /\ in_order_players' = <<>>
    /\ UNCHANGED <<op, argVars, outcome, reg, probe, saved, ret, crawlVars, player_count,
                   summoner_info, profileFailures, tableVars>>

LP_ProfileOk ==
    /\ op = "load_players" /\ pc = "profiles" /\ attempted < Rounds(ladder, player_count)
    /\ api' = Inc(api, "summoner")
    /\ \E shape \in {"has_summonerName", "no_summonerName"} : summoner_info' = shape
    /\ in_order_players' = Append(in_order_players, PlayerRow(ladder[attempted + 1]))
    /\ attempted' = attempted + 1
    /\ UNCHANGED <<op, argVars, pc, outcome, reg, probe, saved, ret, crawlVars, player_count,
                   ladder, tiers, j, profileFailures, tableVars>>

LP_ProfileFails ==
    /\ op = "load_players" /\ pc = "profiles" /\ attempted < Rounds(ladder, player_count)
    /\ api' = Inc(api, "summoner")
    /\ profileFailures' = profileFailures + 1
    /\ IF ProfileFailure(summoner_info) = "running"
       THEN attempted' = attempted + 1 /\ j' = j + j /\ UNCHANGED <<pc, outcome>>
       ELSE Raise(ProfileFailure(summoner_info)) /\ UNCHANGED <<attempted, j>>
    /\ UNCHANGED <<op, argVars, reg, probe, saved, ret, crawlVars, player_count, ladder, tiers,
                   in_order_players, summoner_info, tableVars>>

\* The loop is over: the rows are sorted twice and the table is saved. A failed
\* write is printed; the table is returned either way.
LP_Save ==
    /\ op = "load_players" /\ pc = "profiles" /\ attempted >= Rounds(ladder, player_count)
    /\ ret' = SortValues(Sorted(in_order_players))
    /\ \E s \in {"not_requested", "written", "failed"} :
         /\ saved' = s
         /\ outcome' = LP_SaveOutcome(s)
    /\ pc' = "done"
    /\ UNCHANGED <<op, argVars, reg, api, probe, crawlVars, ladderVars, tableVars>>

\* ------------------------------------------------ tables (process_lol_data.py)
\* The participants of one match are distinct players.
Lineups ==
    {l \in [1..NumSlots -> Identities] : \A a, b \in 1..NumSlots : a # b => l[a] # l[b]}

\* The raw match files of a given length, as text: row x has match_id x.
RawTablesOf(len) ==
    {[x \in 1..len |-> [match_id |-> x, slots |-> f[x]]] : f \in [1..len -> Lineups]}

RawTables == UNION {RawTablesOf(len) : len \in 0..MaxRows}

\* A cell of an identity column: a str, or an int where read_csv inferred one.
StrCell(text) == <<"str", text>>
IntCell(text) == <<"int", text>>

\* pd.read_csv infers int64 for a column whose every cell is a number, and
\* leaves the cells of any other column as str.
Numeric(text) == text = "0"
Parsed(column, text) == IF \A t \in column : Numeric(t) THEN IntCell(text) ELSE StrCell(text)

\* pd.read_csv(load_path) of a raw match file: the identity columns
\* p{s}_puuid and p{s}_summonerId typed column by column.
ReadCsv(file) ==
    [x \in DOMAIN file |->
        [match_id |-> file[x].match_id,
         slots |-> [s \in 1..NumSlots |->
            [file[x].slots[s] EXCEPT
                !.puuid = Parsed({file[y].slots[s].puuid : y \in DOMAIN file}, @),
                !.summonerId = Parsed({file[y].slots[s].summonerId : y \in DOMAIN file}, @)]]]]

\* The sentinel row of the player directory.
unknown_row == [name |-> "<U>", puuid |-> StrCell("0"), summonerId |-> StrCell("0")]

\* The columns p{s}_name, p{s}_puuid, p{s}_summonerId renamed to name, puuid, summonerId.
SlotTriples(rows, s) ==
    [x \in DOMAIN rows |-> [name |-> rows[x].slots[s].name,
                            puuid |-> rows[x].slots[s].puuid,
                            summonerId |-> rows[x].slots[s].summonerId]]

\* drop_duplicates: the first occurrence of every row, in order.
RECURSIVE DropDuplicates(_)
DropDuplicates(rows) ==
    IF rows = <<>> THEN <<>>
    ELSE LET front == DropDuplicates(SubSeq(rows, 1, Len(rows) - 1))
         IN IF rows[Len(rows)] \in Range(front) THEN front
            ELSE Append(front, rows[Len(rows)])

\* The loop over slots 2..: concat, then drop_duplicates.
RECURSIVE Combine(_, _, _)
Combine(rows, s, combined) ==
    IF s > NumSlots THEN combined
    ELSE Combine(rows, s + 1, DropDuplicates(combined \o SlotTriples(rows, s)))

\* The directory table: sentinel row first, key = index when asked for.
BuildDirectory(rows, include_key) ==
    LET all == <<unknown_row>> \o Combine(rows, 2, SlotTriples(rows, 1))
    IN [has_key |-> include_key,
        rows |-> [x \in DOMAIN all |->
                    [name |-> all[x].name, puuid |-> all[x].puuid,
                     summonerId |-> all[x].summonerId, key |-> x - 1]]]

\* player_data.drop(columns = ['puuid', 'summonerId'])
DropIdentity(dir) ==
    [has_key |-> dir.has_key,
     rows |-> [x \in DOMAIN dir.rows |-> [name |-> dir.rows[x].name, key |-> dir.rows[x].key]]]

\* pd.read_csv(match_load_path): the rows with their index labels 0, 1, ...
Frame(rows) ==
    [x \in DOMAIN rows |-> [idx |-> x - 1, match_id |-> rows[x].match_id,
                            slots |-> rows[x].slots]]

\* round(frac * len), Python rounding (halves go to the even neighbour).
SampleSize(rate, len) ==
    LET twice == rate * len
        q == twice \div 2
    IN IF twice % 2 = 0 THEN q
       ELSE IF q % 2 = 0 THEN q ELSE q + 1

\* match_data.sample(frac = noise_rate).index: the label sets a sample of
\* `size` rows can carry (joined rows share their label).
SampledLabels(frame, size) ==
    {labels \in SUBSET {frame[x].idx : x \in DOMAIN frame} :
        /\ Cardinality(labels) <= size
        /\ size <= Cardinality({x \in DOMAIN frame : frame[x].idx \in labels})}

\* match_data.loc[row_indices, p{s}_name] = '<U>'
Noised(frame, s, labels) ==
    [x \in DOMAIN frame |->
        IF frame[x].idx \in labels
        THEN [frame[x] EXCEPT !.slots[s].name = "<U>"]
        ELSE frame[x]]

\* The directory rows a name joins to, in directory order.
Matches(name, dir) == SelectSeq(dir.rows, LAMBDA r : r.name = name)

\* champ_dict lookup: a missing id maps to NaN, <<>> here.
ChampName(dict, id) == IF id \in DOMAIN dict THEN <<dict[id]>> ELSE <<>>

\* Slot s of a row once reshaped: identity columns dropped, key and champName added.
Reshaped(row, s, key, dict) ==
    [row EXCEPT !.slots[s] =
        [name |-> row.slots[s].name, key |-> key, champId |-> row.slots[s].champId,
         champName |-> ChampName(dict, row.slots[s].champId), win |-> row.slots[s].win]]

\* A join that gives a name without a directory row the sentinel key.
JoinRowSentinel(row, s, dir, dict) ==
    LET found == Matches(row.slots[s].name, dir)
    IN IF found = <<>> THEN <<Reshaped(row, s, <<0>>, dict)>>
       ELSE [x \in DOMAIN found |-> Reshaped(row, s, <<found[x].key>>, dict)]

\* The left join of one row: one row per matching directory row, a null key if none.
JoinRow(row, s, dir, dict) ==
    LET found == Matches(row.slots[s].name, dir)
    IN IF found = <<>> THEN <<Reshaped(row, s, <<>>, dict)>>
       ELSE [x \in DOMAIN found |-> Reshaped(row, s, <<found[x].key>>, dict)]

RECURSIVE Join(_, _, _, _)
Join(frame, s, dir, dict) ==
    IF frame = <<>> THEN <<>>
    ELSE JoinRow(Head(frame), s, dir, dict) \o Join(Tail(frame), s, dir, dict)

\* match_data[ordered_cols]
Reordered(frame) ==
    [x \in DOMAIN frame |-> [match_id |-> frame[x].match_id, slots |-> frame[x].slots]]

\* The static champion map the remote service serves.
StaticChampions == [id \in {1, 2} |-> IF id = 1 THEN "Annie" ELSE "Olaf"]

PP_Read ==
    /\ op = "process_player_data_from_matches" /\ pc = "start"
    /\ \E file \in FileKinds :
         CASE file = "missing" -> Raise("FileNotFoundError") /\ UNCHANGED match_rows
           [] file = "bad_columns" -> Raise("KeyError: p1_name") /\ UNCHANGED match_rows
           [] file = "ok" -> /\ \E t \in RawTables : match_rows' = ReadCsv(t)
                             /\ pc' = "build"
                             /\ UNCHANGED outcome
    /\ UNCHANGED <<op, argVars, reg, api, probe, saved, ret, crawlVars, ladderVars,
                   player_data, table, slot, noise_rate, champ_dict>>

PP_Build ==
    /\ op = "process_player_data_from_matches" /\ pc = "build"
    /\ \E include_key \in BOOLEAN : ret' = BuildDirectory(match_rows, include_key)
    /\ pc' = "save"
    /\ UNCHANGED <<op, argVars, outcome, reg, api, probe, saved, crawlVars, ladderVars, tableVars>>

PP_Save ==
    /\ op = "process_player_data_from_matches" /\ pc = "save"
    /\ \E s \in {"not_requested", "written", "failed"} :
         /\ saved' = s
         /\ outcome' = PP_SaveOutcome(s)
    /\ pc' = "done"
    /\ UNCHANGED <<op, argVars, reg, api, probe, ret, crawlVars, ladderVars, tableVars>>

PM_Validate ==
    /\ op = "process_match_data" /\ pc = "start"
    /\ \E rate \in NoiseRates :
         /\ noise_rate' = rate
         /\ IF 0 <= rate /\ rate <= 2
            THEN pc' = "read" /\ UNCHANGED outcome
            ELSE Raise("AssertionError: Invalid noise_rate")
    /\ UNCHANGED <<op, argVars, reg, api, probe, saved, ret, crawlVars, ladderVars,
                   match_rows, player_data, table, slot, champ_dict>>

\* The directory file is one process_player_data_from_matches wrote, from the
\* first rows of the same dump (all of them, some, or none).
PM_Read ==
    /\ op = "process_match_data" /\ pc = "read"
    /\ \E file \in FileKinds :
         CASE file = "missing" ->
                Raise("FileNotFoundError") /\ UNCHANGED <<match_rows, player_data, table>>
           [] file = "bad_columns" ->
                Raise("KeyError: puuid") /\ UNCHANGED <<match_rows, player_data, table>>
           [] file = "ok" ->
                /\ \E t \in RawTables, include_key \in BOOLEAN :
                     \E m \in 0..Len(t) :
                        /\ match_rows' = ReadCsv(t)
                        /\ table' = Frame(ReadCsv(t))
                        /\ player_data' =
                             DropIdentity(BuildDirectory(ReadCsv(SubSeq(t, 1, m)),
                                                         include_key))
                /\ pc' = "champions"
                /\ UNCHANGED outcome
    /\ UNCHANGED <<op, argVars, reg, api, probe, saved, ret, crawlVars, ladderVars,
                   slot, noise_rate, champ_dict>>

\* versions_for_region, then champions: an ApiError of either is re-raised.
PM_Champions ==
    /\ op = "process_match_data" /\ pc = "champions"
    /\ \E res \in {"ok", "versions_fail", "champions_fail"} :
         /\ api' = [api EXCEPT !["data_dragon"] = IF res = "versions_fail" THEN 1 ELSE 2]
         /\ IF res = "ok"
            THEN champ_dict' = StaticChampions /\ slot' = 0 /\ pc' = "slots"
                 /\ UNCHANGED outcome
            ELSE Raise("ApiError") /\ UNCHANGED <<champ_dict, slot>>
    /\ UNCHANGED <<op, argVars, reg, probe, saved, ret, crawlVars, ladderVars,
                   match_rows, player_data, table, noise_rate>>

\* One round of the slot loop: drop, noise, join, rename, champion name.
PM_Slot ==
    /\ op = "process_match_data" /\ pc = "slots" /\ slot < NumSlots
    /\ \E row_indices \in SampledLabels(table, SampleSize(noise_rate, Len(table))) :
         table' = Join(Noised(table, slot + 1, row_indices),
                       slot + 1, player_data, champ_dict)
    /\ slot' = slot + 1
    /\ UNCHANGED <<op, argVars, pc, outcome, reg, api, probe, saved, ret, crawlVars, ladderVars,
                   match_rows, player_data, noise_rate, champ_dict>>

\* Without a key column in the directory no p{s}_key column exists to select.
PM_Reorder ==
    /\ op = "process_match_data" /\ pc = "slots" /\ slot >= NumSlots
    /\ IF player_data.has_key
       THEN ret' = Reordered(table) /\ pc' = "save" /\ UNCHANGED outcome
       ELSE Raise("KeyError: p1_key") /\ UNCHANGED ret
    /\ UNCHANGED <<op, argVars, reg, api, probe, saved, crawlVars, ladderVars, tableVars>>

PM_Save ==
    /\ op = "process_match_data" /\ pc = "save"
    /\ \E s \in {"not_requested", "written", "failed"} :
         /\ saved' = s
         /\ outcome' = PM_SaveOutcome(s)
    /\ pc' = "done"
    /\ UNCHANGED <<op, argVars, reg, api, probe, ret, crawlVars, ladderVars, tableVars>>

Next ==
    \/ PP_Read
    \/ PP_Build
    \/ PP_Save
    \/ PM_Validate
    \/ PM_Read
    \/ PM_Champions
    \/ PM_Slot
    \/ PM_Reorder
    \/ PM_Save
    \/ LP_Validate
    \/ LP_Probe
    \/ LP_TierFails
    \/ LP_TierOk
    \/ LP_ProfileOk
    \/ LP_ProfileFails
    \/ LP_Save
    \/ LM_Validate
    \/ LM_Probe
    \/ LMP_ListFails
    \/ LMP_ListOk
    \/ LMP_SkipSearched
    \/ LMP_FetchOk
    \/ LMP_FetchFails
    \/ LM_Merge
    \/ LM_Save

Spec == Init /\ [][Next]_vars

\* ------------------------------------------------------------ crawl claims
Listed(p, id) == p \in DOMAIN lists /\ id \in Range(lists[p])
Calls(p, id) == {x \in DOMAIN fetchLog : fetchLog[x].player = p /\ fetchLog[x].id = id}
Fetched(id) == {x \in DOMAIN fetchLog : fetchLog[x].id = id /\ fetchLog[x].ok}
FailedBy(p) == {x \in DOMAIN fetchLog : fetchLog[x].player = p /\ ~fetchLog[x].ok}

\* C1: in every state of a crawl run searched_matches holds no id twice, an id
\* that was fetched is never passed to the match-detail call again, and no id
\* occurs twice in the sub-crawl's mapping, the result mapping or the table.
C1_NoDuplicateFetch ==
    /\ \A a, b \in DOMAIN searched_matches :
         a # b => searched_matches[a] # searched_matches[b]
    /\ Range(searched_matches) = {id \in MatchIds : Fetched(id) # {}}
    /\ \A x, y \in DOMAIN fetchLog :
         (x < y /\ fetchLog[x].ok) => fetchLog[x].id # fetchLog[y].id
    /\ \A id \in MatchIds :
         /\ KeyCount(match_data, id) <= 1
         /\ KeyCount(player_match_data, id) <= 1
         /\ op = "load_matches" =>
              Cardinality({x \in DOMAIN ret : ret[x].match_id = id}) <= 1

\* A finished run in which the second player listed a match the first had fetched.
C1_Witness ==
    /\ op = "load_matches" /\ outcome = "returned"
    /\ Len(lists) = 2
    /\ \E id \in MatchIds : Listed(1, id) /\ Listed(2, id) /\ Calls(1, id) # {}
                            /\ Fetched(id) # {}

C3_BudgetStopsBetweenPlayers ==
    /\ stopped_at > 0 =>
         /\ i = stopped_at
         /\ Len(lists) = stopped_at
         /\ api["matchlist"] = stopped_at
         /\ \A x \in DOMAIN fetchLog : fetchLog[x].player <= stopped_at
         /\ pc \in {"build", "done"}
         /\ outcome \in {"running", "returned"}
         /\ pc = "done" =>
              {ret[x].match_id : x \in DOMAIN ret} = {id \in MatchIds : Fetched(id) # {}}
    /\ \A x, y \in DOMAIN fetchLog : x < y => fetchLog[x].player <= fetchLog[y].player
    /\ Len(lists) \in {i, i + 1}
    /\ \A p \in 1..i : \A id \in Range(lists[p]) :
         id \in Range(searched_matches) \/ FailedBy(p) # {}

\* The budget ran out after the first of two players and the table was returned.
C3_Witness ==
    /\ stopped_at = 1 /\ n = 2
    /\ outcome = "returned"
    /\ Len(ret) >= 1

\* C4: after a failed match-detail call no further call is issued for that
\* player, the failure raises nothing, and unless the budget check stops the
\* run the next player's match list is requested.
C4_FailFastPerPlayer ==
    /\ \A x, y \in DOMAIN fetchLog :
         (x < y /\ ~fetchLog[x].ok) => fetchLog[y].player > fetchLog[x].player
    /\ pc = "aborted" =>
         /\ outcome = "running"
         /\ fetchLog # <<>>
         /\ ~fetchLog[Len(fetchLog)].ok
         /\ fetchLog[Len(fetchLog)].player = i + 1
    /\ \A p \in 1..i :
         (FailedBy(p) # {} /\ p < n /\ stopped_at # p) =>
            \/ pc = "loop" /\ i = p /\ outcome = "running"
            \/ api["matchlist"] > p

\* The first candidate of two failed for player 1 and player 2 was listed.
C4_Witness ==
    /\ Len(lists) = 2
    /\ Len(lists[1]) = 2
    /\ \E x \in FailedBy(1) : fetchLog[x].pos = 1

\* C5 as stated: a failed match-list call is not fatal to the run.
C5_ListFailureNotFatal ==
    listFailures > 0 => outcome \in {"running", "returned"}

\* ----------------------------------------------------------- loader claims
\* C6: after an unauthorized probe the call has raised the authentication
\* error, the probe is the only remote call issued, and no player or ladder
\* entry was processed.
C6_UnauthorizedFailsFast ==
    probe = "401" =>
        /\ outcome = "ApiError: 401"
        /\ pc = "done"
        /\ api = [kind \in ApiKinds |-> IF kind = "status" THEN 1 ELSE 0]
        /\ i = 0 /\ lists = <<>> /\ fetchLog = <<>>
        /\ attempted = 0 /\ ladder = <<>> /\ in_order_players = <<>>

C6_Witness ==
    op = "load_matches" /\ probe = "401" /\ outcome = "ApiError: 401"

\* C7 as stated: a failed profile lookup never raises, and the returned table
\* holds exactly the entries whose lookup succeeded.
C7_ProfileFailureSkipped ==
    op = "load_players" =>
        /\ profileFailures > 0 => outcome \in {"running", "returned"}
        /\ outcome = "returned" => Len(ret) = attempted - profileFailures

\* C8 as stated: the four region codes are accepted, every other is rejected.
C8_FourRegionsAccepted ==
    (op \in {"load_players", "load_matches"} /\ pc # "start") =>
        (reg \in {"na1", "euw1", "eun1", "kr"} <=> outcome # "AssertionError: Invalid region")

\* The leaguePoints column of a table.
Points(df) == [x \in DOMAIN df |-> df[x].leaguePoints]

\* C10: the table load_players hands back is in descending order of
\* leaguePoints and holds the rows of in_order_players, whatever the ladder
\* order and whichever lookups failed.
C10_SortedDescending ==
    (op = "load_players" /\ outcome = "returned") =>
        /\ \A x, y \in DOMAIN ret : x < y => ret[x].leaguePoints >= ret[y].leaguePoints
        /\ Len(ret) = Len(in_order_players)
        /\ \A row \in Range(in_order_players) :
             Cardinality({x \in DOMAIN ret : ret[x] = row})
               = Cardinality({x \in DOMAIN in_order_players : in_order_players[x] = row})

\* The ladder lists 50, 200, 100 and the table returned reads 200, 100, 50.
C10_Witness ==
    /\ outcome = "returned"
    /\ Points(ladder) = <<50, 200, 100>>
    /\ Points(ret) = <<200, 100, 50>>

Processed == op = "process_match_data" /\ (pc = "save" \/ saved # "none")

\* The keyed directory process_player_data_from_matches builds from the same rows.
SameRowsDirectory == player_data = DropIdentity(BuildDirectory(match_rows, TRUE))

\* C11 as stated: with the directory built from the same rows and noise_rate 0
\* every slot of the processed table has a key, and a slot named '<U>' has key 0.
C11_RoundTripResolves ==
    (Processed /\ noise_rate = 0 /\ SameRowsDirectory) =>
        \A x \in DOMAIN ret, s \in 1..NumSlots :
            /\ ret[x].slots[s].key # <<>>
            /\ ret[x].slots[s].name = "<U>" => ret[x].slots[s].key = <<0>>

\* C12 as stated: with noise_rate 1.0 and a keyed directory every slot of every
\* row of the processed table is named '<U>' and has key 0.
C12_FullNoiseAllSentinel ==
    (Processed /\ noise_rate = 2 /\ player_data.has_key) =>
        \A x \in DOMAIN ret, s \in 1..NumSlots :
            /\ ret[x].slots[s].name = "<U>"
            /\ ret[x].slots[s].key = <<0>>

\* C13 as stated: the processed table has one row per raw row, with its match_id.
C13_OneRowPerMatch ==
    Processed =>
        /\ Len(ret) = Len(match_rows)
        /\ \A x \in DOMAIN ret : ret[x].match_id = match_rows[x].match_id

\* The (name, puuid, summonerId) triple of a directory row.
Triple(row) == <<row.name, row.puuid, row.summonerId>>

\* process_player_data_from_matches has built its table.
DirectoryBuilt ==
    op = "process_player_data_from_matches" /\ (pc = "save" \/ saved # "none")

\* C14 as stated: the directory has the sentinel row first, no triple twice,
\* and (when keys are asked for) key = row position, counted from 0.
C14_DirectoryWellFormed ==
    DirectoryBuilt =>
        /\ Triple(ret.rows[1]) = Triple(unknown_row)
        /\ \A x, y \in DOMAIN ret.rows :
             x # y => Triple(ret.rows[x]) # Triple(ret.rows[y])
        /\ ret.has_key => \A x \in DOMAIN ret.rows : ret.rows[x].key = x - 1

\* ------------------------------------------------------- validation claims
NoRemoteCall == api = [kind \in ApiKinds |-> 0]

\* The invalid arguments of each call, against the program's own region list.
InvalidLoadPlayersArgs == reg \notin ValidRegions \/ player_count <= 0
InvalidLoadMatchesArgs ==
    \/ reg \notin ValidRegions
    \/ time_limit = <<>>
    \/ time_limit # <<>> /\ time_limit[1] <= 0
    \/ date = "not_past"
    \/ no_source
InvalidNoiseRate == noise_rate < 0 \/ noise_rate > 2

ArgumentErrors ==
    {"AssertionError: Invalid region", "AssertionError: Invalid player count",
     "AssertionError: Invalid time limit", "AssertionError: Invalid date",
     "TypeError: None > 0", "ValueError: Specify at least one of players or load_data",
     "AssertionError: Invalid noise_rate"}

FetchedBy(p) == {fetchLog[x].id : x \in {y \in DOMAIN fetchLog :
                                          fetchLog[y].player = p /\ fetchLog[y].ok}}

\* The stored record of id in a result mapping or table, if there is one.
StoredIn(d, id) == {d[x].val : x \in {y \in DOMAIN d : d[y].key = id}}

\* Every entry of the mapping d is still in e, at its place and unchanged.
Kept(d, e) == Len(d) <= Len(e) /\ \A x \in DOMAIN d : e[x] = d[x]

\* C16: once a player's sub-crawl is merged, every match it fetched, also
\* one fetched before a later candidate failed, is in the result mapping with
\* its record and its id is in searched_matches; the table returned holds it;
\* and no step removes or changes an entry the mapping already had.
C16_MergedAfterEverySubCrawl ==
    /\ [](op = "load_matches" =>
            /\ \A p \in 1..i : \A id \in FetchedBy(p) :
                 /\ StoredIn(match_data, id) = {Serialise(RemoteMatch(id))}
                 /\ id \in Range(searched_matches)
            /\ outcome = "returned" =>
                 \A p \in 1..i : \A id \in FetchedBy(p) :
                    \E x \in DOMAIN ret :
                       ret[x].match_id = id /\ ret[x].cols = Serialise(RemoteMatch(id))
            /\ stopped_at > 0 => i = stopped_at)
    /\ [][Kept(match_data, match_data')]_vars

\* Player 1 fetched its first candidate, failed on the second, and the run
\* returned a table holding the first.
C16_Witness ==
    /\ op = "load_matches" /\ outcome = "returned"
    /\ \E x, y \in DOMAIN fetchLog :
         /\ fetchLog[x].player = 1 /\ fetchLog[x].ok /\ fetchLog[x].pos = 1
         /\ fetchLog[y].player = 1 /\ ~fetchLog[y].ok /\ fetchLog[y].pos = 2
         /\ \E z \in DOMAIN ret : ret[z].match_id = fetchLog[x].id

\* ------------------------------------------------------ table claims, again
DirectoryNames == {player_data.rows[x].name : x \in DOMAIN player_data.rows}

\* C17: in the processed table a slot whose name has no directory row has a
\* null key, a slot whose name has one has a key, and key 0 goes with no name
\* but '<U>'.
C17_UnresolvedNameNullKey ==
    Processed =>
        \A x \in DOMAIN ret, s \in 1..NumSlots :
            /\ ret[x].slots[s].name \notin DirectoryNames <=> ret[x].slots[s].key = <<>>
            /\ ret[x].slots[s].key = <<0>> => ret[x].slots[s].name = "<U>"

\* A slot named Ann met a directory that has no Ann and came out with a null key.
C17_Witness ==
    /\ Processed /\ outcome = "returned"
    /\ "Ann" \notin DirectoryNames
    /\ \E x \in DOMAIN ret, s \in 1..NumSlots :
         ret[x].slots[s].name = "Ann" /\ ret[x].slots[s].key = <<>>

\* ------------------------------------------------ crawl claims, continued
\* load_matches is between two sub-crawls, or past the last.
BetweenSubCrawls == op = "load_matches" /\ pc \in {"loop", "build", "done"}

\* C18: between sub-crawls the keys of the result mapping are exactly the ids
\* of searched_matches, and no step takes an id out of searched_matches.
C18_ResultKeysAreSearched ==
    /\ [](BetweenSubCrawls => DictKeys(match_data) = Range(searched_matches))
    /\ [][Kept(searched_matches, searched_matches')]_vars

\* Two players merged, two matches stored and searched.
C18_Witness ==
    /\ BetweenSubCrawls /\ i = 2
    /\ Cardinality(Range(searched_matches)) = 2
    /\ DictKeys(match_data) = Range(searched_matches)
    /\ \E x, y \in DOMAIN fetchLog : fetchLog[x].player = 1 /\ fetchLog[y].player = 2
                                     /\ fetchLog[x].ok /\ fetchLog[y].ok

\* The ids the remote service listed for any player so far.
CandidateIds == UNION {Range(lists[p]) : p \in DOMAIN lists}

\* A bound on the steps load_matches has left: whole players still to come,
\* then the candidates of the current one, then the merge and the save.
StepsLeft ==
    LET perPlayer == MaxListLen + 2
    IN CASE pc = "start" -> MaxPlayers * perPlayer + 3
         [] pc = "probe" -> n * perPlayer + 2
         [] pc = "loop" -> (n - i) * perPlayer + 1
         [] pc = "cand" -> (n - i - 1) * perPlayer + (Len(match_list) - k + 1) + 2
         [] pc = "aborted" -> (n - i - 1) * perPlayer + 2
         [] pc = "build" -> 1
         [] pc = "done" -> 0

\* C19: a crawl run issues at most n match-list calls and at most (distinct
\* candidate ids) + n match-detail calls, because a fetch that succeeds is of
\* a new id and a player has at most one failed fetch; and it terminates:
\* every step of the run lowers a bound that cannot go below zero, and the
\* run is never stuck before it is done.
C19_TerminatesWithinCallBound ==
    /\ [](op = "load_matches" =>
            /\ api["matchlist"] <= n
            /\ api["matchlist"] = Len(lists) + listFailures
            /\ api["match"] = Len(fetchLog)
            /\ api["match"] <= Cardinality(CandidateIds) + n
            /\ Cardinality({x \in DOMAIN fetchLog : fetchLog[x].ok})
                 <= Cardinality(CandidateIds)
            /\ \A p \in 1..n : Cardinality(FailedBy(p)) <= 1
            /\ StepsLeft >= 0
            /\ pc # "done" => ENABLED Next)
    /\ [][op = "load_matches" => StepsLeft' < StepsLeft]_vars

\* A finished run of two players, each with one failed fetch.
C19_Witness ==
    /\ op = "load_matches" /\ outcome = "returned"
    /\ n = 2 /\ api["matchlist"] = 2
    /\ FailedBy(1) # {} /\ FailedBy(2) # {}
    /\ api["match"] = 3

\* The candidate loop of player p has dealt with position pos of its list.
Passed(p, pos) == p <= i \/ (p = i + 1 /\ pc \in {"cand", "aborted"} /\ pos < k)

\* The loop of player p got as far as position pos: no earlier candidate failed.
Reached(p, pos) == \A x \in FailedBy(p) : fetchLog[x].pos >= pos

\* The match-detail calls player p issued at position pos of its list.
CallsAt(p, pos) ==
    {x \in DOMAIN fetchLog : fetchLog[x].player = p /\ fetchLog[x].pos = pos}

\* A step that issues a match-detail call which fails.
FailedFetchStep ==
    Len(fetchLog') = Len(fetchLog) + 1 /\ ~fetchLog'[Len(fetchLog')].ok

\* C20: a failed fetch adds nothing to searched_matches or to a mapping, so
\* an id is there only if a fetch of it succeeded; and a candidate the loop
\* reaches is fetched exactly when no fetch of it succeeded before: an id
\* whose fetch failed is tried again by the next player that reaches it, and
\* an id that was fetched is not.
C20_FailedIdRetried ==
    /\ [][FailedFetchStep =>
            /\ searched_matches' = searched_matches
            /\ match_data' = match_data
            /\ player_match_data' = player_match_data]_vars
    /\ [](op = "load_matches" =>
            /\ \A id \in MatchIds :
                 (\/ id \in Range(searched_matches)
                  \/ id \in DictKeys(match_data)
                  \/ id \in DictKeys(player_match_data)) => Fetched(id) # {}
            /\ \A p \in DOMAIN lists : \A pos \in DOMAIN lists[p] :
                 (Passed(p, pos) /\ Reached(p, pos)) =>
                    LET before == {x \in Fetched(lists[p][pos]) :
                                      \/ fetchLog[x].player < p
                                      \/ fetchLog[x].player = p /\ fetchLog[x].pos < pos}
                    IN /\ before = {} <=> CallsAt(p, pos) # {}
                       /\ Cardinality(CallsAt(p, pos)) <= 1)

\* The fetch of an id failed for player 1 and player 2 tried the same id again.
C20_Witness ==
    /\ op = "load_matches"
    /\ \E x, y \in DOMAIN fetchLog :
         /\ fetchLog[x].player = 1 /\ ~fetchLog[x].ok
         /\ fetchLog[y].player = 2 /\ fetchLog[y].id = fetchLog[x].id

====
